---- MODULE Spec2Model ----
(***************************************************************************)
(* Electricity price widget (Scriptable): the three script variants of the *)
(* repository, modelled side by side.                                      *)
(*                                                                         *)
(*   "energyprices" : src/energyprices/energyprices.js (no cache)          *)
(*   "frankCached"  : src/unnamed/part_001 (Frank Energie, 2-hour cache,   *)
(*                    "now" label)                                         *)
(*   "energyZero"   : src/unnamed/part_000 (EnergyZero API, 2-hour cache)  *)
(*                                                                         *)
(* Time is counted in half hours (HOUR = 2 units), so that Math.round of   *)
(* an hour offset has a fractional case.  JavaScript arrays are 0-based;   *)
(* the sequences below are 1-based and every index returned by a modelled  *)
(* function is the 0-based JavaScript index.                               *)
(*                                                                         *)
(* Prices are JavaScript numbers (IEEE-754 binary64).  A price is held as  *)
(* the exact integer value * 2^56, split in two limbs, and every sum is    *)
(* rounded to 53 significant bits as the addition of two doubles is.       *)
(***************************************************************************)
EXTENDS Integers, Sequences, FiniteSets, TLC

VARIABLES
    variant,     \* which of the three scripts is running
    fnPc,        \* pure-function harness: "input" before the call, "returned" after
    fnValues,    \* findCheapestWindow: argument dataPoints
    fnWindow,    \* findCheapestWindow: argument windowSize
    fnSamples,   \* filterPrices: argument prices
    fnNow,       \* filterPrices: argument now
    fnResult,    \* value returned by the function under test
    clock,       \* Date.now(), in half hours
    cache,       \* the cache file: exists, content, modification date
    pc,          \* position of the current widget run
    run,         \* locals and observable result of the current run
    fetchCalls,  \* number of request.loadJSON() invocations so far
    lastFetchOk  \* time of the last loadJSON() that resolved, -1 if none

vars == <<variant, fnPc, fnValues, fnWindow, fnSamples, fnNow, fnResult,
          clock, cache, pc, run, fetchCalls, lastFetchOk>>

fnVars == <<fnPc, fnValues, fnWindow, fnSamples, fnNow, fnResult>>
runVars == <<clock, cache, pc, run, fetchCalls, lastFetchOk>>

-----------------------------------------------------------------------------
(* Bounds of the model *)

MaxLen == 5          \* longest dataPoints array given to findCheapestWindow
MaxWindowSize == 4   \* largest windowSize given to findCheapestWindow
MaxPrice == 3        \* prices range over 0.0, 0.1, ... MaxPrice tenths
MaxSamples == 3      \* longest prices array given to filterPrices
MaxSeries == 5       \* longest price list in a provider response
MaxClock == 6        \* the clock stops advancing here
MaxFetches == 3      \* no new run starts after this many loadJSON() calls

(* Program constants *)

HOUR == 2                       \* 60 * 60 * 1000 ms, in model units
HORIZON == 12 * HOUR            \* 12 * 60 * 60 * 1000
CACHE_DURATION == 2 * HOUR      \* 2 * 60 * 60 * 1000
WINDOW_SIZE == 4                \* findCheapestWindow(dataPoints, 4)

Variants == {"energyprices", "frankCached", "energyZero"}
CachedVariants == {"frankCached", "energyZero"}

-----------------------------------------------------------------------------
(* JavaScript values *)

NULL == [kind |-> "null"]
\* the marker for a call that ended by throwing instead of returning
THREW == [kind |-> "threw"]

(* Numbers: the doubles v with 0 <= v < 8 that are a multiple of 2^-56,    *)
(* held exactly as v * 2^56 = hi * 2^28 + lo                               *)

LimbBase == 2^28

Double(hi, lo) == [hi |-> hi, lo |-> lo]
DoubleZero == Double(0, 0)

\* the double a decimal literal 0.0, 0.1, ... 1.0 of a JSON response parses
\* to (0.1 is 0x1.999999999999ap-4, 0.3 is 0x1.3333333333333p-2, ...)
TenthsLiterals ==
    << Double(0, 0),
       Double(26843545, 161061274), Double(53687091, 53687092),
       Double(80530636, 214748364), Double(107374182, 107374184),
       Double(134217728, 0),        Double(161061273, 161061272),
       Double(187904819, 53687088), Double(214748364, 214748368),
       Double(241591910, 107374184), Double(268435456, 0) >>

ParseTenths(t) == TenthsLiterals[t + 1]

Prices == {ParseTenths(t) : t \in 0..MaxPrice}

RECURSIVE BitLength(_)
BitLength(n) == IF n = 0 THEN 0 ELSE 1 + BitLength(n \div 2)

\* number of significant bits of hi * 2^28 + lo
DoubleBits(x) == IF x.hi > 0 THEN 28 + BitLength(x.hi) ELSE BitLength(x.lo)

\* the sum of two values as a real number, before rounding
ExactAdd(a, b) ==
    LET lo == a.lo + b.lo
    IN  Double(a.hi + b.hi + lo \div LimbBase, lo % LimbBase)

\* round to 53 significant bits, to nearest, ties to even
RoundToDouble(x) ==
    LET d == DoubleBits(x) - 53
    IN  IF d <= 0 THEN x
        ELSE LET q == 2^d
                 r == x.lo % q
                 up == 2 * r > q \/ (2 * r = q /\ (x.lo \div q) % 2 = 1)
                 lo == IF up THEN x.lo - r + q ELSE x.lo - r
             IN  Double(x.hi + lo \div LimbBase, lo % LimbBase)

\* a + b on JavaScript numbers
DoubleAdd(a, b) == RoundToDouble(ExactAdd(a, b))

\* a < b and a <= b on finite JavaScript numbers
DoubleLess(a, b) == a.hi < b.hi \/ (a.hi = b.hi /\ a.lo < b.lo)
DoubleLeq(a, b) == ~DoubleLess(b, a)

Infinity == [inf |-> TRUE, v |-> DoubleZero]
Num(n) == [inf |-> FALSE, v |-> n]

\* a < b on JavaScript numbers, b possibly Infinity, a finite
LessThan(a, b) == b.inf \/ DoubleLess(a, b.v)

Min2(a, b) == IF a < b THEN a ELSE b

\* Array.prototype.slice(from, to) with 0-based, end-exclusive, clamped bounds
Slice(arr, from, to) == SubSeq(arr, from + 1, Min2(to, Len(arr)))

\* arr.reduce((a, b) => a + b, 0): the accumulator runs left to right
RECURSIVE Reduce(_, _)
Reduce(a, arr) ==
    IF arr = <<>> THEN a ELSE Reduce(DoubleAdd(a, Head(arr)), Tail(arr))

SumReduce(arr) == Reduce(DoubleZero, arr)

\* Math.min(...arr), Math.max(...arr) for a non-empty array
MathMin(arr) == CHOOSE m \in {arr[i] : i \in 1..Len(arr)} :
                    \A i \in 1..Len(arr) : DoubleLeq(m, arr[i])
MathMax(arr) == CHOOSE m \in {arr[i] : i \in 1..Len(arr)} :
                    \A i \in 1..Len(arr) : DoubleLeq(arr[i], m)

\* Math.round(n / d) for d > 0: halves round towards +Infinity
MathRoundDiv(n, d) == (2 * n + d) \div (2 * d)

-----------------------------------------------------------------------------
(* findCheapestWindow, energyprices.js *)

\* inner loop: for (j = 0; j < windowSize; j++) sum += dataPoints[i + j]
RECURSIVE InnerSum_energyprices(_, _, _, _, _)
InnerSum_energyprices(dataPoints, i, j, windowSize, sum) ==
    IF j < windowSize
    THEN InnerSum_energyprices(dataPoints, i, j + 1, windowSize,
                               DoubleAdd(sum, dataPoints[i + j + 1]))
    ELSE sum

\* mutant: a tie replaces the best window (<= in place of <)
Better_energyprices_OnTies(sum, bestSum) == bestSum.inf \/ DoubleLeq(sum, bestSum.v)

\* the test that replaces the best window found so far
Better_energyprices(sum, bestSum) == LessThan(sum, bestSum)

\* outer loop: for (i = 0; i <= numBars - windowSize; i++)
RECURSIVE Scan_energyprices(_, _, _, _, _)
Scan_energyprices(dataPoints, windowSize, i, bestSum, bestIndex) ==
    IF i <= Len(dataPoints) - windowSize
    THEN LET sum == InnerSum_energyprices(dataPoints, i, 0, windowSize, DoubleZero)
         IN  IF Better_energyprices(sum, bestSum)
             THEN Scan_energyprices(dataPoints, windowSize, i + 1, Num(sum), i)
             ELSE Scan_energyprices(dataPoints, windowSize, i + 1, bestSum, bestIndex)
    ELSE bestIndex

\* the early return: if (numBars < windowSize) return null
TooShort_energyprices(numBars, windowSize) == numBars < windowSize

findCheapestWindow_energyprices(dataPoints, windowSize) ==
    IF TooShort_energyprices(Len(dataPoints), windowSize)
    THEN NULL
    ELSE LET bestIndex == Scan_energyprices(dataPoints, windowSize, 0, Infinity, 0)
         IN  [start |-> bestIndex, end |-> bestIndex + windowSize - 1]

(* findCheapestWindow, part_001 (frankCached): no length check *)

Better_frankCached(sum, bestSum) == LessThan(sum, bestSum)

RECURSIVE Scan_frankCached(_, _, _, _, _)
Scan_frankCached(dataPoints, windowSize, i, bestSum, bestIndex) ==
    IF i <= Len(dataPoints) - windowSize
    THEN LET sum == SumReduce(Slice(dataPoints, i, i + windowSize))
         IN  IF Better_frankCached(sum, bestSum)
             THEN Scan_frankCached(dataPoints, windowSize, i + 1, Num(sum), i)
             ELSE Scan_frankCached(dataPoints, windowSize, i + 1, bestSum, bestIndex)
    ELSE bestIndex

findCheapestWindow_frankCached(dataPoints, windowSize) ==
    LET bestIndex == Scan_frankCached(dataPoints, windowSize, 0, Infinity, 0)
    IN  [start |-> bestIndex, end |-> bestIndex + windowSize - 1]

(* findCheapestWindow, part_000 (energyZero): data.reduce over the indices *)

Better_energyZero(sum, bestSum) == LessThan(sum, bestSum)

\* one call of the reduce callback at index i with accumulator best
ReduceStep_energyZero(best, i, arr, windowSize) ==
    IF i > Len(arr) - windowSize
    THEN best
    ELSE LET sum == SumReduce(Slice(arr, i, i + windowSize))
         IN  IF Better_energyZero(sum, best.sum)
             THEN [sum |-> Num(sum), start |-> i]
             ELSE best

RECURSIVE Reduce_energyZero(_, _, _, _)
Reduce_energyZero(best, i, arr, windowSize) ==
    IF i < Len(arr)
    THEN Reduce_energyZero(ReduceStep_energyZero(best, i, arr, windowSize),
                           i + 1, arr, windowSize)
    ELSE best

findCheapestWindow_energyZero(data, windowSize) ==
    Reduce_energyZero([sum |-> Infinity, start |-> 0], 0, data, windowSize)

findCheapestWindow(v, dataPoints, windowSize) ==
    CASE v = "energyprices" -> findCheapestWindow_energyprices(dataPoints, windowSize)
      [] v = "frankCached"  -> findCheapestWindow_frankCached(dataPoints, windowSize)
      [] v = "energyZero"   -> findCheapestWindow_energyZero(dataPoints, windowSize)

-----------------------------------------------------------------------------
(* filterPrices / filterFuturePrices: the same code in the three scripts *)

\* mutant: the far edge of the horizon is excluded (< in place of <=)
InHorizon_OpenEnd(p, now) ==
    LET endTime == now + HORIZON
    IN  p.from >= now /\ p.from < endTime

\* the filter predicate: priceTime >= now && priceTime <= endTime
InHorizon(p, now) ==
    LET endTime == now + HORIZON
    IN  p.from >= now /\ p.from <= endTime

RECURSIVE Filter(_, _)
Filter(prices, now) ==
    IF prices = <<>> THEN <<>>
    ELSE IF InHorizon(Head(prices), now)
         THEN <<Head(prices)>> \o Filter(Tail(prices), now)
         ELSE Filter(Tail(prices), now)

\* the comparator (a, b) => new Date(a.from) - new Date(b.from)
CompareFrom(a, b) == a.from - b.from

\* Array.prototype.sort is stable: x goes behind every element that does not
\* compare greater than it
RECURSIVE InsertSorted(_, _)
InsertSorted(sorted, x) ==
    IF sorted = <<>> THEN <<x>>
    ELSE IF CompareFrom(Head(sorted), x) > 0
         THEN <<x>> \o sorted
         ELSE <<Head(sorted)>> \o InsertSorted(Tail(sorted), x)

RECURSIVE SortByFrom(_, _)
SortByFrom(done, rest) ==
    IF rest = <<>> THEN done
    ELSE SortByFrom(InsertSorted(done, Head(rest)), Tail(rest))

filterPrices(prices, now) == SortByFrom(<<>>, Filter(prices, now))

-----------------------------------------------------------------------------
(* Bounded inputs of the pure functions *)

RECURSIVE SeqsUpTo(_, _)
SeqsUpTo(S, n) ==
    IF n = 0 THEN {<<>>}
    ELSE LET shorter == SeqsUpTo(S, n - 1)
         IN  shorter \cup {Append(s, x) : s \in {t \in shorter : Len(t) = n - 1}, x \in S}

\* start times around the two ends of the horizon, relative to now
FromOffsets == {0 - 1, 0, 1, HORIZON, HORIZON + 1}

IdleRun == [outcome |-> "none"]
NoFile == [exists |-> FALSE]

RunIdle ==
    /\ clock = 0
    /\ cache = NoFile
    /\ pc = "idle"
    /\ run = IdleRun
    /\ fetchCalls = 0
    /\ lastFetchOk = 0 - 1

FnIdle ==
    /\ fnPc = "unused"
    /\ fnValues = <<>>
    /\ fnWindow = 0
    /\ fnSamples = <<>>
    /\ fnNow = 0
    /\ fnResult = NULL

(* Specification of findCheapestWindow: every variant on every bounded input *)

InitWindow ==
    /\ variant \in Variants
    /\ fnPc = "input"
    /\ fnValues \in SeqsUpTo(Prices, MaxLen)
    /\ fnWindow \in 1..MaxWindowSize
    /\ fnSamples = <<>>
    /\ fnNow = 0
    /\ fnResult = NULL
    /\ RunIdle

CallFindCheapestWindow ==
    /\ fnPc = "input"
    /\ fnResult' = findCheapestWindow(variant, fnValues, fnWindow)
    /\ fnPc' = "returned"
    /\ UNCHANGED <<variant, fnValues, fnWindow, fnSamples, fnNow>>
    /\ UNCHANGED runVars

NextWindow == CallFindCheapestWindow

SpecWindow == InitWindow /\ [][NextWindow]_vars

(* Specification of filterPrices *)

InitFilter ==
    /\ variant \in Variants
    /\ fnPc = "input"
    /\ fnNow \in 1..2
    /\ fnSamples \in SeqsUpTo([from : {fnNow + d : d \in FromOffsets}, price : {ParseTenths(1), ParseTenths(2)}],
                              MaxSamples)
    /\ fnValues = <<>>
    /\ fnWindow = 0
    /\ fnResult = NULL
    /\ RunIdle

CallFilterPrices ==
    /\ fnPc = "input"
    /\ fnResult' = filterPrices(fnSamples, fnNow)
    /\ fnPc' = "returned"
    /\ UNCHANGED <<variant, fnValues, fnWindow, fnSamples, fnNow>>
    /\ UNCHANGED runVars

NextFilter == CallFilterPrices

SpecFilter == InitFilter /\ [][NextFilter]_vars

-----------------------------------------------------------------------------
(* Provider responses.  request.loadJSON() of a GraphQL endpoint resolves  *)
(* with a JSON object; a rejected loadJSON() is the action FetchRejects.   *)

\* payload shapes a parseable JSON response can have:
\*   "ok"       { data: { <market>: { <list>: [...] } } }
\*   "noList"   { data: { <market>: {} } }
\*   "noMarket" { data: { <market>: null } }
\*   "noData"   { errors: [...] }                       (no 'data' object)
Shapes == {"ok", "noList", "noMarket", "noData"}

PricePatterns == {"flat", "dip", "falling"}

\* price of the i-th sample (1-based) of a response: 0.1 throughout; 0.2
\* with four hours at 0.1; 0.9, 0.8, ... falling by 0.1 an hour
PatternPrice(p, i) ==
    CASE p = "flat"    -> ParseTenths(1)
      [] p = "dip"     -> IF i \in 2..5 THEN ParseTenths(1) ELSE ParseTenths(2)
      [] p = "falling" -> ParseTenths(10 - i)

\* the start of the hour that contains t
HourFloor(t) == (t \div HOUR) * HOUR

\* n hourly samples, the first at the start of the current hour
HourlySeries(t, p, n) ==
    [i \in 1..n |-> [from |-> HourFloor(t) + (i - 1) * HOUR, price |-> PatternPrice(p, i)]]

Responses(t) ==
    {[shape |-> "ok", prices |-> HourlySeries(t, p, n)] : p \in PricePatterns, n \in 0..MaxSeries}
    \cup {[shape |-> s, prices |-> <<>>] : s \in Shapes \ {"ok"}}

-----------------------------------------------------------------------------
(* createWidget: the synchronous part that follows the awaited payload *)

NoLabel == [kind |-> "none", n |-> 0]

Result(outcome, filtered, min, max, label, bars) ==
    [outcome |-> outcome, filtered |-> filtered, min |-> min, max |-> max,
     label |-> label, bars |-> bars]

Placeholder(outcome) == Result(outcome, <<>>, DoubleZero, DoubleZero, NoLabel, <<>>)

PriceOf(filtered) == [i \in 1..Len(filtered) |-> filtered[i].price]

\* cheapestStartOffset, energyprices.js: " @" + Math.round(hoursOffset) + "h"
OffsetLabel_energyprices(hoursOffset) == [kind |-> "at", n |-> hoursOffset]

\* cheapestStartOffset, part_001: (hoursOffset === 0) ? " now" : ` @${hoursOffset}h`
OffsetLabel_frankCached(hoursOffset) ==
    IF hoursOffset = 0 THEN [kind |-> "now", n |-> 0]
    ELSE [kind |-> "at", n |-> hoursOffset]

\* cheapestStartOffset, part_000: hoursOffset === 0 ? " now" : ` @${hoursOffset}h`
OffsetLabel_energyZero(hoursOffset) ==
    IF hoursOffset = 0 THEN [kind |-> "now", n |-> 0]
    ELSE [kind |-> "at", n |-> hoursOffset]

OffsetLabel(v, hoursOffset) ==
    CASE v = "energyprices" -> OffsetLabel_energyprices(hoursOffset)
      [] v = "frankCached"  -> OffsetLabel_frankCached(hoursOffset)
      [] v = "energyZero"   -> OffsetLabel_energyZero(hoursOffset)

\* Math.round((cheapestStartTime - now) / (60 * 60 * 1000))
HoursOffset(filtered, start, now) ==
    MathRoundDiv(filtered[start + 1].from - now, HOUR)

\* if (cheapestWindow) { ... } : null is the only falsy value returned
CheapestStartOffset(v, filtered, cheapestWindow, now) ==
    IF cheapestWindow # NULL
    THEN OffsetLabel(v, HoursOffset(filtered, cheapestWindow.start, now))
    ELSE NoLabel

\* drawBarChart, energyprices.js and part_001: the window is searched again
\* and its bars are filled, the others outlined
drawBarChart_energyprices(dataPoints) ==
    LET cheapestWindow == findCheapestWindow_energyprices(dataPoints, WINDOW_SIZE)
    IN  [i \in 1..Len(dataPoints) |->
            IF cheapestWindow # NULL /\ i - 1 >= cheapestWindow.start
                                     /\ i - 1 <= cheapestWindow.end
            THEN [inWindow |-> TRUE, style |-> "fill #00ff00"]
            ELSE [inWindow |-> FALSE, style |-> "stroke #ffffff"]]

drawBarChart_frankCached(dataPoints) ==
    LET cheapestWindow == findCheapestWindow_frankCached(dataPoints, WINDOW_SIZE)
    IN  [i \in 1..Len(dataPoints) |->
            IF cheapestWindow # NULL /\ i - 1 >= cheapestWindow.start
                                     /\ i - 1 <= cheapestWindow.end
            THEN [inWindow |-> TRUE, style |-> "fill #ffffff"]
            ELSE [inWindow |-> FALSE, style |-> "stroke #ffffff"]]

\* drawBarChart, part_000: the window is passed in; both branches of the
\* colour choice are white
drawBarChart_energyZero(dataPoints, cheapestWindow) ==
    [i \in 1..Len(dataPoints) |->
        IF i - 1 >= cheapestWindow.start /\ i - 1 < cheapestWindow.start + 4
        THEN [inWindow |-> TRUE, style |-> "fill #ffffff"]
        ELSE [inWindow |-> FALSE, style |-> "fill #ffffff"]]

drawBarChart(v, dataPoints, cheapestWindow) ==
    CASE v = "energyprices" -> drawBarChart_energyprices(dataPoints)
      [] v = "frankCached"  -> drawBarChart_frankCached(dataPoints)
      [] v = "energyZero"   -> drawBarChart_energyZero(dataPoints, cheapestWindow)

\* the chart branch of createWidget, from the filtered series on
Chart(v, filteredPrices, now) ==
    LET dataPoints == PriceOf(filteredPrices)
        cheapestWindow == findCheapestWindow(v, dataPoints, WINDOW_SIZE)
    IN  Result("chart", filteredPrices, MathMin(dataPoints), MathMax(dataPoints),
               CheapestStartOffset(v, filteredPrices, cheapestWindow, now),
               drawBarChart(v, dataPoints, cheapestWindow))

\* if (filteredPrices.length < 2) { "Not enough data" }
FilterAndChart(v, prices, now) ==
    LET filteredPrices == filterPrices(prices, now)
    IN  IF Len(filteredPrices) < 2
        THEN Placeholder("notEnough")
        ELSE Chart(v, filteredPrices, now)

\* energyprices.js and part_001: json.data.marketPrices.electricityPrices
\* throws a TypeError when json.data or json.data.marketPrices is missing
ThrowsOnAccess(json) == json.shape \in {"noData", "noMarket"}

\* if (!prices || prices.length === 0) { "No electricity price data" }
NoPrices(json) == json.shape = "noList" \/ Len(json.prices) = 0

createWidget_energyprices(json, now) ==
    IF ThrowsOnAccess(json) THEN Placeholder("abort")
    ELSE IF NoPrices(json) THEN Placeholder("noData")
    ELSE FilterAndChart("energyprices", json.prices, now)

createWidget_frankCached(json, now) ==
    IF ThrowsOnAccess(json) THEN Placeholder("abort")
    ELSE IF NoPrices(json) THEN Placeholder("noData")
    ELSE FilterAndChart("frankCached", json.prices, now)

\* part_000: if (!data || !data.data || !data.data.energyMarketPrices?.prices)
NoValidData(data) == data = NULL \/ data.shape # "ok"

createWidget_energyZero(data, now) ==
    IF NoValidData(data) THEN Placeholder("noData")
    ELSE FilterAndChart("energyZero", data.prices, now)

createWidget(v, json, now) ==
    CASE v = "energyprices" -> createWidget_energyprices(json, now)
      [] v = "frankCached"  -> createWidget_frankCached(json, now)
      [] v = "energyZero"   -> createWidget_energyZero(json, now)

-----------------------------------------------------------------------------
(* getCachedElectricityPrices and the widget run *)

\* JSON.stringify(json) / JSON.parse(text): the file holds the serialized
\* text of the payload, and parsing that text gives the payload back
JSONStringify(json) == [text |-> json]
JSONParse(string) == string.text

\* fm.writeString(cachePath, JSON.stringify(json)) at time mtime
CacheFile(payload, mtime) ==
    [exists |-> TRUE, content |-> JSONStringify(payload), mtime |-> mtime]

\* mutant: an entry of exactly CACHE_DURATION still counts as fresh
IsFresh_Inclusive(age) == age <= CACHE_DURATION

\* if (age < CACHE_DURATION)
IsFresh(age) == age < CACHE_DURATION

\* fm.fileExists(cachePath) && Date.now() - modificationDate < CACHE_DURATION
CacheHit(c, t) == c.exists /\ IsFresh(t - c.mtime)

\* mutant: the fetched payload is returned without being written
WriteCache_frankCached_Skipped(c, json, t) == c

\* the file after a resolved fetch.  part_001 writes unconditionally;
\* part_000 writes if (data), and every JSON object is truthy
WriteCache_frankCached(c, json, t) == CacheFile(json, t)
WriteCache_energyZero(c, data, t) == IF data # NULL THEN CacheFile(data, t) ELSE c

WriteCache(v, c, json, t) ==
    CASE v = "energyprices" -> c
      [] v = "frankCached"  -> WriteCache_frankCached(c, json, t)
      [] v = "energyZero"   -> WriteCache_energyZero(c, json, t)

\* the record of a finished run: what getCachedElectricityPrices saw and
\* returned, and what createWidget produced
Finished(now, callTime, cacheAtCall, callsAtCall, fetchOk, ret, res) ==
    [outcome |-> res.outcome, now |-> now, callTime |-> callTime,
     cacheAtCall |-> cacheAtCall, callsAtCall |-> callsAtCall, fetchOk |-> fetchOk,
     ret |-> ret, filtered |-> res.filtered, min |-> res.min, max |-> res.max,
     label |-> res.label, bars |-> res.bars]

Init ==
    /\ variant \in Variants
    /\ FnIdle
    /\ RunIdle

\* the clock advances between runs and while a fetch is awaited
Tick ==
    /\ pc \in {"idle", "fetching"}
    /\ clock < MaxClock
    /\ clock' = clock + 1
    /\ UNCHANGED <<variant, cache, pc, run, fetchCalls, lastFetchOk>>
    /\ UNCHANGED fnVars

\* a run whose getCachedElectricityPrices finds a fresh file: the stored
\* payload is parsed and returned, and createWidget runs to its end
ServeFromCache ==
    /\ pc = "idle"
    /\ variant \in CachedVariants
    /\ fetchCalls < MaxFetches
    /\ CacheHit(cache, clock)
    /\ run' = Finished(clock, clock, cache, fetchCalls, FALSE, JSONParse(cache.content),
                       createWidget(variant, JSONParse(cache.content), clock))
    /\ pc' = "done"
    /\ UNCHANGED <<variant, clock, cache, fetchCalls, lastFetchOk>>
    /\ UNCHANGED fnVars

\* a run that reaches request.loadJSON(): no cache in this script, no file,
\* or a file that is too old
BeginFetch ==
    /\ pc = "idle"
    /\ fetchCalls < MaxFetches
    /\ variant \in CachedVariants => ~CacheHit(cache, clock)
    /\ run' = [outcome |-> "pending", now |-> clock, callTime |-> clock,
               cacheAtCall |-> cache, callsAtCall |-> fetchCalls]
    /\ fetchCalls' = fetchCalls + 1
    /\ pc' = "fetching"
    /\ UNCHANGED <<variant, clock, cache, lastFetchOk>>
    /\ UNCHANGED fnVars

\* 'now' of the synchronous part: energyprices.js and part_001 take it
\* before the await; part_000 reads the clock after it, in filterFuturePrices
\* and again for the offset, within the same synchronous stretch
NowAfterFetch(v) == IF v = "energyZero" THEN clock ELSE run.now

\* loadJSON() resolves with a parseable payload
FetchResolves ==
    /\ pc = "fetching"
    /\ \E json \in Responses(clock) :
        /\ cache' = WriteCache(variant, cache, json, clock)
        /\ run' = Finished(NowAfterFetch(variant), run.callTime, run.cacheAtCall,
                           run.callsAtCall, TRUE, json,
                           createWidget(variant, json, NowAfterFetch(variant)))
    /\ lastFetchOk' = clock
    /\ pc' = "done"
    /\ UNCHANGED <<variant, clock, fetchCalls>>
    /\ UNCHANGED fnVars

\* mutant: a failed fetch falls back to the payload on disk
OnFetchError_StaleFallback(v) ==
    IF cache.exists
    THEN [ret |-> JSONParse(cache.content), res |-> createWidget(v, JSONParse(cache.content), clock)]
    ELSE [ret |-> THREW, res |-> Placeholder("abort")]

\* what the run becomes when loadJSON() rejects:
\*   energyprices.js  createWidget catches it: "Error loading data"
\*   part_001         nothing catches it: the script ends with the error
\*   part_000         fetchElectricityPrices catches it and returns null
OnFetchError(v) ==
    CASE v = "energyprices" -> [ret |-> THREW, res |-> Placeholder("error")]
      [] v = "frankCached"  -> [ret |-> THREW, res |-> Placeholder("abort")]
      [] v = "energyZero"   -> [ret |-> NULL,
                                res |-> createWidget_energyZero(NULL, clock)]

\* loadJSON() rejects (network or parse error)
FetchRejects ==
    /\ pc = "fetching"
    /\ LET e == OnFetchError(variant)
       IN  /\ cache' = IF e.ret = NULL
                       THEN WriteCache(variant, cache, NULL, clock)
                       ELSE cache
           /\ run' = Finished(NowAfterFetch(variant), run.callTime, run.cacheAtCall,
                              run.callsAtCall, FALSE, e.ret, e.res)
    /\ pc' = "done"
    /\ UNCHANGED <<variant, clock, fetchCalls, lastFetchOk>>
    /\ UNCHANGED fnVars

\* Script.complete(): the next scheduled refresh starts a new run
Exit ==
    /\ pc = "done"
    /\ run' = IdleRun
    /\ pc' = "idle"
    /\ UNCHANGED <<variant, clock, cache, fetchCalls, lastFetchOk>>
    /\ UNCHANGED fnVars

Next ==
    \/ Tick
    \/ ServeFromCache
    \/ BeginFetch
    \/ FetchResolves
    \/ FetchRejects
    \/ Exit

Spec == Init /\ [][Next]_vars

-----------------------------------------------------------------------------
(* Claims about findCheapestWindow (SpecWindow) *)

\* the sum of the window of length k at 0-based index i as the scripts
\* compute it: double additions, left to right, starting from 0
FloatSum(values, i, k) == Reduce(DoubleZero, SubSeq(values, i + 1, i + k))

\* the same sum as a real number
RECURSIVE ExactReduce(_, _)
ExactReduce(a, arr) ==
    IF arr = <<>> THEN a ELSE ExactReduce(ExactAdd(a, Head(arr)), Tail(arr))

ExactSum(values, i, k) == ExactReduce(DoubleZero, SubSeq(values, i + 1, i + k))

\* the smallest start index whose window sum is <= the sum of every window
\* of length k, for the sums given by Sum
EarliestMinimal(Sum(_, _, _), values, k) ==
    CHOOSE i \in 0..(Len(values) - k) :
        /\ \A j \in 0..(Len(values) - k) : DoubleLeq(Sum(values, i, k), Sum(values, j, k))
        /\ \A j \in 0..(i - 1) : DoubleLess(Sum(values, i, k), Sum(values, j, k))

\* C4: findCheapestWindow returns the 'none' result (null) if and only if
\* len(values) < windowLength
C4_NoneIffTooShort ==
    fnPc = "returned" => ((fnResult = NULL) <=> (Len(fnValues) < fnWindow))

\* C5 as stated: when len(values) >= windowLength >= 1 the returned start
\* index is the smallest index whose window sum (the sum of its values) is
\* <= the sum of every other window
C5_EarliestMinimalWindowExact ==
    (fnPc = "returned" /\ Len(fnValues) >= fnWindow)
        => fnResult.start = EarliestMinimal(ExactSum, fnValues, fnWindow)

\* C5 amended: when len(values) >= windowLength >= 1 the returned start
\* index is the smallest index whose window sum, added up left to right in
\* double arithmetic, is <= that sum of every other window
C5_EarliestMinimalWindow ==
    (fnPc = "returned" /\ Len(fnValues) >= fnWindow)
        => fnResult.start = EarliestMinimal(FloatSum, fnValues, fnWindow)

\* a call in which two windows have the same sum as real numbers, the later
\* one rounds to the smaller double and is the one returned
C5_Witness ==
    /\ fnPc = "returned"
    /\ Len(fnValues) >= fnWindow
    /\ fnResult.start > 0
    /\ \E j \in 0..(fnResult.start - 1) :
           /\ ExactSum(fnValues, j, fnWindow) = ExactSum(fnValues, fnResult.start, fnWindow)
           /\ DoubleLess(FloatSum(fnValues, fnResult.start, fnWindow),
                         FloatSum(fnValues, j, fnWindow))

-----------------------------------------------------------------------------
(* Claims about filterPrices (SpecFilter) *)

RECURSIVE Count(_, _)
Count(s, x) ==
    IF s = <<>> THEN 0
    ELSE (IF Head(s) = x THEN 1 ELSE 0) + Count(Tail(s), x)

Elements(s) == {s[i] : i \in 1..Len(s)}

\* C6: the result holds exactly the input samples with
\* now <= from <= now + 12 hours, ordered non-decreasing by from
C6_FilterExactAndSorted ==
    fnPc = "returned" =>
        /\ \A x \in Elements(fnSamples) \cup Elements(fnResult) :
               Count(fnResult, x) =
                   IF fnNow <= x.from /\ x.from <= fnNow + 12 * HOUR
                   THEN Count(fnSamples, x) ELSE 0
        /\ \A i \in 1..(Len(fnResult) - 1) : fnResult[i].from <= fnResult[i + 1].from

\* an unsorted input with a sample on the far edge of the horizon, one past
\* it, and a result that had to be reordered
C6_Witness ==
    /\ fnPc = "returned"
    /\ Len(fnResult) >= 2
    /\ Len(fnResult) < Len(fnSamples)
    /\ fnResult[1] # fnSamples[1]
    /\ fnSamples[1] \in Elements(fnResult)
    /\ \E i \in 1..Len(fnResult) : fnResult[i].from = fnNow + HORIZON

-----------------------------------------------------------------------------
(* Claims about the cache and the widget run (Spec) *)

\* a finished run of a script that has getCachedElectricityPrices
CachedRunDone == pc = "done" /\ variant \in CachedVariants

\* loadJSON() was invoked during the finished run
FetchInvoked == fetchCalls > run.callsAtCall

\* the value returned by getCachedElectricityPrices is a parsed payload
IsPayload(r) == r # NULL /\ r # THREW

\* C1: if an entry exists and its age is strictly less than 2 hours, the
\* stored payload is returned and fetch is not invoked; otherwise fetch is
\* invoked and, when it succeeds, the entry is overwritten with the fetched
\* payload and a fresh write time, and that payload is returned
C1_FreshServedElseFetched ==
    CachedRunDone =>
        LET c == run.cacheAtCall
        IN  IF c.exists /\ run.callTime - c.mtime < 2 * HOUR
            THEN /\ ~FetchInvoked
                 /\ run.ret = JSONParse(c.content)
                 /\ cache = c
            ELSE /\ fetchCalls = run.callsAtCall + 1
                 /\ run.fetchOk =>
                        /\ IsPayload(run.ret)
                        /\ cache = CacheFile(run.ret, clock)
                        /\ lastFetchOk = clock

\* an entry written 150 minutes before the call is refetched and overwritten
C1_Witness ==
    /\ CachedRunDone
    /\ run.cacheAtCall.exists
    /\ 2 * (run.callTime - run.cacheAtCall.mtime) = 5 * HOUR
    /\ run.fetchOk
    /\ cache.mtime = clock
    /\ JSONParse(cache.content) # JSONParse(run.cacheAtCall.content)
    /\ run.ret = JSONParse(cache.content)

\* C2: once a fetch has succeeded at time t, a call made strictly before
\* t + 2 hours does not increase the number of fetch invocations
C2_NoFetchWithinMaxAge ==
    [][ ( /\ variant \in CachedVariants
          /\ lastFetchOk >= 0
          /\ clock < lastFetchOk + 2 * HOUR
          /\ pc = "idle" /\ pc' # "idle" )
        => fetchCalls' = fetchCalls ]_vars

\* a second run, 90 minutes after the fetch, that was served without a fetch
C2_Witness ==
    /\ CachedRunDone
    /\ lastFetchOk >= 0
    /\ 2 * (run.callTime - lastFetchOk) = 3 * HOUR
    /\ ~FetchInvoked
    /\ fetchCalls = 1

\* C3 as stated: when the entry is missing or stale and the fetch fails, the
\* failure propagates out of getCachedElectricityPrices and the run aborts
C3_FetchFailureAborts ==
    (CachedRunDone /\ FetchInvoked /\ ~run.fetchOk)
        => (run.ret = THREW /\ run.outcome = "abort")

\* C3 amended: when the entry is missing or stale and the fetch fails, the
\* stale payload is never returned and the entry is left as it was; part_001
\* propagates the failure and the run aborts, part_000 returns null and the
\* run ends in the no-data placeholder
C3_FetchFailureNeverServesStale ==
    (CachedRunDone /\ FetchInvoked /\ ~run.fetchOk)
        => /\ ~IsPayload(run.ret)
           /\ cache = run.cacheAtCall
           /\ variant = "frankCached" => (run.ret = THREW /\ run.outcome = "abort")
           /\ variant = "energyZero" => (run.ret = NULL /\ run.outcome = "noData")

\* a failed fetch while a stale entry was on disk
C3_Witness ==
    /\ CachedRunDone
    /\ FetchInvoked
    /\ ~run.fetchOk
    /\ run.cacheAtCall.exists
    /\ JSONParse(run.cacheAtCall.content).shape = "ok"
    /\ Len(JSONParse(run.cacheAtCall.content).prices) >= 2

\* C7: with at least 2 but fewer than 4 filtered samples the summary still
\* reports min and max but carries no cheapest-window information
C7_ShortSeriesHasNoWindow ==
    (pc = "done" /\ run.outcome = "chart"
        /\ Len(run.filtered) >= 2 /\ Len(run.filtered) < WINDOW_SIZE)
        => /\ run.min = MathMin(PriceOf(run.filtered))
           /\ run.max = MathMax(PriceOf(run.filtered))
           /\ run.label = NoLabel
           /\ \A i \in 1..Len(run.bars) : ~run.bars[i].inWindow

\* C8: a parseable payload that lacks the expected fields does not abort the
\* run; the run ends in the no-data / not-enough-data placeholder
C8_MalformedPayloadDegrades ==
    (pc = "done" /\ IsPayload(run.ret) /\ run.ret.shape # "ok")
        => run.outcome \in {"noData", "notEnough"}

\* C9: whenever a cheapest window is found the label is "now" exactly when
\* round((filtered[startIndex].from - now) / 1 hour) is 0 and "@Nh" with
\* that rounded value otherwise
C9_OffsetLabelNowOrHours ==
    (pc = "done" /\ run.outcome = "chart")
        => LET w == findCheapestWindow(variant, PriceOf(run.filtered), WINDOW_SIZE)
           IN  w # NULL =>
                 LET h == MathRoundDiv(run.filtered[w.start + 1].from - run.now, HOUR)
                 IN  run.label = IF h = 0 THEN [kind |-> "now", n |-> 0]
                                 ELSE [kind |-> "at", n |-> h]

\* C10: the cache only ever holds a payload of the expected shape, and a
\* run served from a fresh entry never ends in the no-data outcome or in an
\* abort
C10_CacheHoldsOnlyValidPayloads ==
    /\ cache.exists => JSONParse(cache.content).shape = "ok"
    /\ (CachedRunDone /\ ~FetchInvoked) => run.outcome \notin {"noData", "abort"}

====
